---------------------------- MODULE Spec2Model ----------------------------
(***************************************************************************)
(* The lager plugin engine.  Two builds of the engine are in the           *)
(* repository:                                                             *)
(*   - src/lib/lager.js : function Lager() with registerPlugin, getPlugin  *)
(*     and its own fire (the sequential hook dispatcher);                  *)
(*   - the class Lager extends Pebo (unnamed/part_002) with config,        *)
(*     plugins, extensions, registerPlugin, isPluginRegistered, getPlugin, *)
(*     call, init and getConfig.                                           *)
(* The variable build says which of the two modules the process loaded;    *)
(* it never changes.  Every operation of the loaded build is one action.   *)
(***************************************************************************)
EXTENDS Integers, Sequences, FiniteSets, TLC

VARIABLES build, plugins, config, extensions, events, call, ret, registered,
          applied, catched, icli_print, console, calls, call2

\* the fields of the engine with the fire calls in flight, and the command line
\* object of unnamed/part_000
engine == <<build, plugins, config, extensions, events, call, registered, applied,
            call2>>
cli == <<catched, icli_print, console, calls>>

vars == <<build, plugins, config, extensions, events, call, ret, registered,
          applied, catched, icli_print, console, calls, call2>>

(***************************************************************************)
(* Bounds and input pools                                                  *)
(***************************************************************************)
\* the registry holds at most MaxPlugins descriptors in a checked run
MaxPlugins == 3

LagerJs == "src/lib/lager.js"
PeboLager == "unnamed/part_002"

\* JavaScript's undefined, for a property that holds a mapping when present
Undefined == [undefined |-> TRUE]
\* an absent name: name is undefined, which JavaScript prints as "undefined"
NoName == "undefined"
\* the JavaScript empty array/object literal used as a mapping
Empty == <<>>
\* the other JavaScript values that are no mapping
Null == [null |-> TRUE]
Number(n) == [number |-> n]
String(s) == [string |-> s]
\* a value that is an object with own properties (a mapping)
IsMapping(v) == DOMAIN v \cap {"undefined", "null", "number", "string"} = {}

Names == {"A", "B"}
\* the names looked up
LookupNames == Names \cup {NoName}
Events == {"e", "f"}
Tuples == {<<"x">>, <<"x", "y">>}

\* hooks of a descriptor: absent, or a mapping event -> handler
HookOptions == {Undefined, [e |-> "append"], [e |-> "reject"], [f |-> "append"]}

Descriptor(name, hooks, ext, cfg) ==
  [name |-> name, hooks |-> hooks, extensions |-> ext, config |-> cfg,
   getPath |-> Undefined, lager |-> Undefined]

\* descriptors handed to the engine of src/lib/lager.js
CoreDescriptors ==
  {Descriptor(n, h, Undefined, Undefined) : n \in Names, h \in HookOptions}
    \cup {Descriptor(NoName, h, Undefined, Undefined) : h \in {Undefined, [e |-> "append"]}}

\* descriptors handed to the engine of unnamed/part_002
PeboDescriptors ==
  {Descriptor(n, h, x[1], x[2]) :
     n \in Names \cup {NoName},
     h \in {Undefined, [e |-> "append"]},
     x \in {<<Undefined, Undefined>>, <<[double |-> "double"], [timeout |-> Number(30)]>>}}

(***************************************************************************)
(* Plugin-supplied hook handlers.  A handler is called with this = its     *)
(* plugin and the current tuple, and returns a promise of a tuple.         *)
(*   "append": resolves to the tuple with "-<this.name>" appended to the   *)
(*             first argument;                                             *)
(*   "reject": rejects with an error that names the plugin.                *)
(***************************************************************************)
HookResult(fn, this, args) ==
  CASE fn = "append" ->
         [kind |-> "fulfilled", value |-> [args EXCEPT ![1] = @ \o "-" \o this.name],
          reason |-> ""]
    [] fn = "hang" -> [kind |-> "pending", value |-> <<>>, reason |-> ""]
    [] OTHER -> [kind |-> "rejected", value |-> <<>>, reason |-> "Error-" \o this.name]

(***************************************************************************)
(* JavaScript and lodash helpers                                           *)
(***************************************************************************)
\* obj[k]: undefined when obj has no such property
Prop(obj, k) == IF k \in DOMAIN obj THEN obj[k] ELSE Undefined

\* mutant: the assignment replaces the mapping by one that holds k alone
SetProp_replace(obj, k, v) == [x \in {k} |-> v]

\* obj[k] = v
SetProp(obj, k, v) ==
  [x \in DOMAIN obj \cup {k} |-> IF x = k THEN v ELSE obj[x]]

\* _.findIndex(list, plugin => plugin.name === name): the index, counted from 0,
\* of the first match, or -1
RECURSIVE FindIndexFrom(_, _, _)
FindIndexFrom(list, name, k) ==
  IF k >= Len(list) THEN -1
  ELSE IF list[k + 1].name = name THEN k
  ELSE FindIndexFrom(list, name, k + 1)

findIndex(list, name) == FindIndexFrom(list, name, 0)

\* mutant: the list is searched from its end
RECURSIVE find_last(_, _)
find_last(list, name) ==
  IF list = <<>> THEN Undefined
  ELSE IF list[Len(list)].name = name THEN list[Len(list)]
  ELSE find_last(SubSeq(list, 1, Len(list) - 1), name)

\* _.find(list, plugin => plugin.name === name): the first match, or undefined
RECURSIVE find(_, _)
find(list, name) ==
  IF list = <<>> THEN Undefined
  ELSE IF Head(list).name = name THEN Head(list)
  ELSE find(Tail(list), name)

\* values a call returns: the engine (return this), a promise, a boolean
This == [lager |-> TRUE]
Promise == [promise |-> TRUE]
Boolean(b) == [boolean |-> b]
\* the argument of a lookup by name
ByName(name) == [name |-> name]

\* the outcome of the last synchronous call: what was called, with which argument
\* (a descriptor, or a name), and what it returned or threw
Return(op, arg, v) == [op |-> op, arg |-> arg, kind |-> "return", value |-> v]
Throw(op, arg, msg) == [op |-> op, arg |-> arg, kind |-> "throw", value |-> [error |-> msg]]

\* icli.print = print: the default print, which wraps console.log
DefaultPrint == [fn |-> "print"]

NoCall ==
  [state |-> "none", eventName |-> "", initialArgs |-> <<>>, i |-> 0, args |-> <<>>,
   running |-> {}, invoked |-> <<>>, value |-> <<>>, reason |-> ""]

Init ==
  /\ build \in {LagerJs, PeboLager}
  /\ plugins = <<>>
  /\ config = Empty
  /\ extensions = Empty
  /\ events = Empty
  /\ call = NoCall
  /\ ret = Return("require", ByName(""), This)
  /\ registered = <<>>
  /\ applied = <<>>
  /\ catched = ""
  /\ icli_print = DefaultPrint
  /\ console = <<>>
  /\ calls = <<>>
  /\ call2 = NoCall


(***************************************************************************)
(* src/lib/lager.js                                                        *)
(***************************************************************************)
\* mutant: unshift instead of push
push_front(list, plugin) == <<plugin>> \o list

\* this.plugins.push(plugin)
push(list, plugin) == Append(list, plugin)

\* Lager.prototype.registerPlugin
registerPlugin(plugin) ==
  /\ build = LagerJs
  /\ IF plugin.name = NoName
     THEN /\ ret' = Throw("registerPlugin", plugin, "A lager plugin MUST have a name property")
          /\ UNCHANGED <<plugins, registered>>
     ELSE /\ Len(plugins) < MaxPlugins
          /\ plugins' = push(plugins, [plugin EXCEPT !.getPath = <<"cwd", plugin.name>>])
          /\ registered' = Append(registered, plugin)
          /\ ret' = Return("registerPlugin", plugin, This)
  /\ UNCHANGED <<build, config, extensions, events, call>>
  /\ applied' = <<>>
  /\ UNCHANGED <<cli, call2>>

\* Lager.prototype.getPlugin
getPlugin(name) ==
  /\ build = LagerJs
  /\ ret' = Return("getPlugin", ByName(name), find(plugins, name))
  /\ UNCHANGED <<build, plugins, config, extensions, events, call, registered>>
  /\ applied' = <<>>
  /\ UNCHANGED <<cli, call2>>

\* mutant: the test on hooks[eventName] is dropped
Implements_anyHook(plugin, eventName) ==
  /\ plugin.hooks # Undefined
  /\ DOMAIN plugin.hooks # {}

\* this.plugins[i].hooks && this.plugins[i].hooks[eventName]
Implements(plugin, eventName) ==
  /\ plugin.hooks # Undefined
  /\ eventName \in DOMAIN plugin.hooks

\* Promise.resolve.call(this, args)
Resolve(c, i, args) ==
  [c EXCEPT !.state = "fulfilled", !.i = i, !.args = args, !.value = args]

\* mutant: the handler is applied to the arguments fire was called with
Invoke_initialArgs(c, i, args) ==
  [c EXCEPT !.state = "pending", !.i = i, !.args = c.initialArgs,
            !.running = @ \cup {i},
            !.invoked = Append(@, [i |-> i, args |-> c.initialArgs])]

\* this.plugins[i].hooks[eventName].apply(this.plugins[i], args): the handler of
\* plugin i is called with args and its promise is outstanding
Invoke(c, i, args) ==
  [c EXCEPT !.state = "pending", !.i = i, !.args = args,
            !.running = @ \cup {i},
            !.invoked = Append(@, [i |-> i, args |-> args])]

\* mutant: the next plugin is called without waiting for the handler's promise
RECURSIVE callPluginsSequencialy_noWait(_, _, _)
callPluginsSequencialy_noWait(c, i, args) ==
  IF i >= Len(plugins)
  THEN IF c.running = {} THEN Resolve(c, i, args) ELSE c
  ELSE IF Implements(plugins[i + 1], c.eventName)
       THEN callPluginsSequencialy_noWait(Invoke(c, i, args), i + 1, args)
       ELSE callPluginsSequencialy_noWait(c, i + 1, args)

\* mutant: the walk ends one plugin before the end of the registry
RECURSIVE callPluginsSequencialy_stopEarly(_, _, _)
callPluginsSequencialy_stopEarly(c, i, args) ==
  IF i >= Len(plugins) - 1
  THEN Resolve(c, i, args)
  ELSE IF Implements(plugins[i + 1], c.eventName)
       THEN Invoke(c, i, args)
       ELSE callPluginsSequencialy_stopEarly(c, i + 1, args)

\* callPluginsSequencialy(i, args), up to the point where it returns: the promise
\* of the tuple when no plugin is left, or the promise chained on the handler of
\* the next plugin that implements the hook.  i counts from 0 as in the code.
RECURSIVE callPluginsSequencialy(_, _, _)
callPluginsSequencialy(c, i, args) ==
  IF i >= Len(plugins)
  THEN Resolve(c, i, args)
  ELSE IF Implements(plugins[i + 1], c.eventName)
       THEN Invoke(c, i, args)
       ELSE callPluginsSequencialy(c, i + 1, args)

\* Lager.prototype.fire(eventName, ...args): one fire call is followed at a time
fire(eventName, args) ==
  /\ build = LagerJs
  /\ call.state # "pending"
  /\ call' = callPluginsSequencialy(
                [NoCall EXCEPT !.eventName = eventName, !.initialArgs = args], 0, args)
  /\ ret' = Return("fire", ByName(eventName), Promise)
  /\ UNCHANGED <<build, plugins, config, extensions, events, registered>>
  /\ applied' = <<>>
  /\ UNCHANGED <<cli, call2>>

\* the arguments the outstanding handler of plugin i was called with
PassedTo(c, i) ==
  LET k == CHOOSE k \in 1..Len(c.invoked) :
             /\ c.invoked[k].i = i
             /\ \A j \in (k + 1)..Len(c.invoked) : c.invoked[j].i # i
  IN c.invoked[k].args

\* mutant: the next plugin gets the closure's args, not the handler's result
propagateArguments_staleArgs(c, i, res) ==
  IF res.kind = "fulfilled"
  THEN callPluginsSequencialy([c EXCEPT !.running = @ \ {i}], i + 1, PassedTo(c, i))
  ELSE [c EXCEPT !.state = "rejected", !.reason = res.reason, !.running = @ \ {i}]

\* mutant: a rejection is caught and the chain goes on
propagateArguments_swallow(c, i, res) ==
  callPluginsSequencialy([c EXCEPT !.running = @ \ {i}], i + 1,
                         IF res.kind = "fulfilled" THEN res.value ELSE PassedTo(c, i))

\* mutant: nothing is chained on a handler that resolves
propagateArguments_dropChain(c, i, res) ==
  IF res.kind = "fulfilled"
  THEN [c EXCEPT !.running = @ \ {i}]
  ELSE [c EXCEPT !.state = "rejected", !.reason = res.reason, !.running = @ \ {i}]

\* mutant: a handler that rejects is called a second time before the call fails
propagateArguments_retry(c, i, res) ==
  IF res.kind = "fulfilled"
  THEN callPluginsSequencialy([c EXCEPT !.running = @ \ {i}], i + 1, res.value)
  ELSE IF Cardinality({k \in 1..Len(c.invoked) : c.invoked[k].i = i}) < 2
       THEN Invoke([c EXCEPT !.running = @ \ {i}], i, PassedTo(c, i))
       ELSE [c EXCEPT !.state = "rejected", !.reason = res.reason, !.running = @ \ {i}]

\* .spread(function propagateArguments() {...}): what the chained promise does
\* when the promise of plugin i's handler settles with res
propagateArguments(c, i, res) ==
  IF res.kind = "fulfilled"
  THEN callPluginsSequencialy([c EXCEPT !.running = @ \ {i}], i + 1, res.value)
  ELSE [c EXCEPT !.state = "rejected", !.reason = res.reason, !.running = @ \ {i}]

\* the promise returned by an invoked hook handler settles
settle ==
  /\ build = LagerJs
  /\ \E i \in call.running :
       LET plugin == plugins[i + 1]
           res == HookResult(plugin.hooks[call.eventName], plugin, PassedTo(call, i))
       IN /\ res.kind # "pending"
          /\ call' = propagateArguments(call, i, res)
  /\ UNCHANGED <<build, plugins, config, extensions, events, ret, registered,
                 applied>>
  /\ UNCHANGED <<cli, call2>>

\* a second call of Lager.prototype.fire, made while the first may be pending:
\* it has its own i and args, the parameters of its own callPluginsSequencialy
fire_second(eventName, args) ==
  /\ build = LagerJs
  /\ call2.state # "pending"
  /\ call2' = callPluginsSequencialy(
                 [NoCall EXCEPT !.eventName = eventName, !.initialArgs = args], 0, args)
  /\ ret' = Return("fire", ByName(eventName), Promise)
  /\ UNCHANGED <<build, plugins, config, extensions, events, registered, call>>
  /\ applied' = <<>>
  /\ UNCHANGED cli

\* mutant: the handler's result is chained on the position of the other call
settle_second_shared ==
  /\ build = LagerJs
  /\ \E i \in call2.running :
       LET plugin == plugins[i + 1]
           res == HookResult(plugin.hooks[call2.eventName], plugin, PassedTo(call2, i))
       IN /\ res.kind # "pending"
          /\ call2' = propagateArguments([call2 EXCEPT !.running = {}], call.i, res)
  /\ UNCHANGED <<build, plugins, config, extensions, events, ret, registered,
                 applied, call>>
  /\ UNCHANGED cli

\* the promise returned by a hook handler the second call invoked settles
settle_second ==
  /\ build = LagerJs
  /\ \E i \in call2.running :
       LET plugin == plugins[i + 1]
           res == HookResult(plugin.hooks[call2.eventName], plugin, PassedTo(call2, i))
       IN /\ res.kind # "pending"
          /\ call2' = propagateArguments(call2, i, res)
  /\ UNCHANGED <<build, plugins, config, extensions, events, ret, registered,
                 applied, call>>
  /\ UNCHANGED cli

(***************************************************************************)
(* unnamed/part_002: class Lager extends Pebo                              *)
(***************************************************************************)
\* _.camelCase on the names of this model; _.camelCase(undefined) is ''
camelCase(name) ==
  CASE name = "A" -> "a"
    [] name = "a" -> "a"
    [] name = "B" -> "b"
    [] name = NoName -> ""

\* key.split('.'): the pieces of key between its '.' characters, from position
\* start on, i being the position under the scan
RECURSIVE SplitFrom(_, _, _)
SplitFrom(key, start, i) ==
  IF i > Len(key) THEN <<SubSeq(key, start, Len(key))>>
  ELSE IF SubSeq(key, i, i) = "."
       THEN <<SubSeq(key, start, i - 1)>> \o SplitFrom(key, i + 1, i + 1)
       ELSE SplitFrom(key, start, i + 1)

\* mutant: the key is never cut
split_whole(key) == <<key>>

split(key) == SplitFrom(key, 1, 1)

\* the outcome of an expression: the value it yields or the error it throws
Returned(v) == [kind |-> "return", value |-> v]
Thrown(msg) == [kind |-> "throw", value |-> [error |-> msg]]

\* part[k] for a part that is neither undefined nor null: an own property of a
\* mapping, the length of a string, undefined on any other scalar
Member(part, k) ==
  IF IsMapping(part) THEN Prop(part, k)
  ELSE IF "string" \in DOMAIN part /\ k = "length" THEN Number(Len(part.string))
  ELSE Undefined

\* the while loop of getConfig: only an undefined part ends the walk early, so
\* reading a property of null throws a TypeError
RECURSIVE WalkConfig(_, _)
WalkConfig(part, configParts) ==
  IF Len(configParts) = 0 THEN Returned(part)
  ELSE IF part = Undefined THEN Returned(Undefined)
  ELSE IF part = Null THEN Thrown("TypeError: Cannot read property of null")
  ELSE WalkConfig(Member(part, Head(configParts)), Tail(configParts))

\* the outcome of getConfig(key) on an engine whose this.config is cfg;
\* key = NoName stands for a call without key
GetConfigIn(cfg, key) ==
  IF key = NoName THEN Returned(cfg)
  ELSE LET configParts == split(key)
       IN WalkConfig(Prop(cfg, Head(configParts)), Tail(configParts))

\* the outcome of Lager.getConfig
Lager_getConfigResult(key) ==
  LET outcome == GetConfigIn(config, key)
  IN [op |-> "getConfig", arg |-> ByName(key), kind |-> outcome.kind,
      value |-> outcome.value]

\* Lager.getConfig
Lager_getConfig(key) ==
  /\ build = PeboLager
  /\ ret' = Lager_getConfigResult(key)
  /\ UNCHANGED <<build, plugins, config, extensions, events, call, registered>>
  /\ applied' = <<>>
  /\ UNCHANGED <<cli, call2>>

\* mutant: a property the object already has is kept
assign_defaultsWin(object, source) ==
  LET target == IF object = Undefined THEN Empty ELSE object
  IN [k \in DOMAIN target \cup DOMAIN source |->
        IF k \in DOMAIN target THEN target[k] ELSE source[k]]

\* _.assign(object, source): the own properties of source written over object
assign(object, source) ==
  LET target == IF object = Undefined THEN Empty ELSE object
  IN [k \in DOMAIN target \cup DOMAIN source |->
        IF k \in DOMAIN source THEN source[k] ELSE target[k]]

\* plugin.config after lines 75-80, on an engine whose this.config is cfg
MergedConfigIn(cfg, plugin) ==
  LET pluginConfig == GetConfigIn(cfg, camelCase(plugin.name)).value
  IN IF pluginConfig # Undefined
     THEN assign(plugin.config, pluginConfig)
     ELSE plugin.config

\* mutant: a missing table is taken for one that holds an entry
OrEmpty_entry(m) == IF m = Undefined THEN [double |-> "double"] ELSE m

\* plugin.hooks = plugin.hooks || [] (and the same for extensions)
OrEmpty(m) == IF m = Undefined THEN Empty ELSE m

\* _.map(plugin.hooks, (fn, event) => this.when(event, fn))
WhenAll(table, hooks) ==
  [ev \in DOMAIN table \cup DOMAIN hooks |->
     IF ev \in DOMAIN hooks
     THEN Append(IF ev \in DOMAIN table THEN table[ev] ELSE <<>>, hooks[ev])
     ELSE table[ev]]

\* the keys plugin.name + ':' + extensionName
ExtensionKeys(plugin) ==
  {plugin.name \o ":" \o x : x \in DOMAIN OrEmpty(plugin.extensions)}

\* mutant: a key that is taken keeps its extension
AddExtensions_keepFirst(table, plugin) ==
  LET ext == OrEmpty(plugin.extensions)
  IN [k \in DOMAIN table \cup ExtensionKeys(plugin) |->
        IF k \in DOMAIN table
        THEN table[k]
        ELSE ext[CHOOSE x \in DOMAIN ext : plugin.name \o ":" \o x = k]]

\* _.map(plugin.extensions, (fn, extensionName) => this.extensions[...] = fn)
AddExtensions(table, plugin) ==
  LET ext == OrEmpty(plugin.extensions)
  IN [k \in DOMAIN table \cup ExtensionKeys(plugin) |->
        IF k \in ExtensionKeys(plugin)
        THEN ext[CHOOSE x \in DOMAIN ext : plugin.name \o ":" \o x = k]
        ELSE table[k]]

\* this.plugins.push(plugin) of Lager.registerPlugin
Lager_push(list, plugin) == Append(list, plugin)

\* the body of Lager.registerPlugin on the fields st of the engine: the fields
\* after it
Registration(st, plugin) ==
  LET merged == MergedConfigIn(st.config, plugin)
      stored == [plugin EXCEPT !.lager = This, !.config = merged,
                               !.hooks = OrEmpty(@), !.extensions = OrEmpty(@)]
  IN [config |-> SetProp(st.config, camelCase(plugin.name), merged),
      plugins |-> Lager_push(st.plugins, stored),
      events |-> WhenAll(st.events, stored.hooks),
      extensions |-> AddExtensions(st.extensions, stored)]

\* the fields of this engine
Fields ==
  [config |-> config, plugins |-> plugins, events |-> events, extensions |-> extensions]

\* Lager.registerPlugin
Lager_registerPlugin(plugin) ==
  /\ build = PeboLager
  /\ Len(plugins) < MaxPlugins
  /\ LET st == Registration(Fields, plugin)
     IN /\ config' = st.config
        /\ plugins' = st.plugins
        /\ events' = st.events
        /\ extensions' = st.extensions
  /\ registered' = Append(registered, plugin)
  /\ ret' = Return("registerPlugin", plugin, This)
  /\ UNCHANGED <<build, call>>
  /\ applied' = <<>>
  /\ UNCHANGED <<cli, call2>>

\* mutant: index 0 is taken for a miss
IsRegistered_positive(name) == findIndex(plugins, name) > 0

\* _.findIndex(this.plugins, ...) !== -1
IsRegistered(name) == findIndex(plugins, name) # -1

\* Lager.isPluginRegistered
Lager_isPluginRegistered(name) ==
  /\ build = PeboLager
  /\ ret' = Return("isPluginRegistered", ByName(name), Boolean(IsRegistered(name)))
  /\ UNCHANGED <<build, plugins, config, extensions, events, call, registered>>
  /\ applied' = <<>>
  /\ UNCHANGED <<cli, call2>>

\* the outcome of Lager.getPlugin
Lager_getPluginResult(name) ==
  LET plugin == find(plugins, name)
  IN IF plugin = Undefined
     THEN Throw("getPlugin", ByName(name), "The plugin is not registered in the Lager instance")
     ELSE Return("getPlugin", ByName(name), plugin)

\* Lager.getPlugin
Lager_getPlugin(name) ==
  /\ build = PeboLager
  /\ ret' = Lager_getPluginResult(name)
  /\ UNCHANGED <<build, plugins, config, extensions, events, call, registered>>
  /\ applied' = <<>>
  /\ UNCHANGED <<cli, call2>>

\* a settled promise: Promise.resolve(v), Promise.reject(e)
Fulfilled(v) == [fulfilled |-> v]
Rejected(e) == [rejected |-> e]

\* what the extension functions of this model do when applied to args: double
\* returns a plain number, doubleAsync a promise of it, fail throws and
\* failAsync returns a rejected promise
ExtensionResult(fn, args) ==
  LET x == IF Len(args) = 0 THEN 0 ELSE args[1].number
  IN CASE fn = "double" -> Returned(Number(2 * x))
       [] fn = "doubleAsync" -> Returned(Fulfilled(Number(2 * x)))
       [] fn = "fail" -> Thrown("Error: extension failed")
       [] fn = "failAsync" -> Returned(Rejected([error |-> "Error: extension failed"]))

\* mutant: the first argument is passed through
First(args) == IF Len(args) = 0 THEN Undefined ELSE args[1]

\* args[args.length - 1]
Last(args) == IF Len(args) = 0 THEN Undefined ELSE args[Len(args)]

\* the applications of extensions made by Lager.call(name, ...args)
Applications(name, args) ==
  IF name \in DOMAIN extensions
  THEN <<[fn |-> extensions[name], this |-> Null, args |-> args]>>
  ELSE <<>>

\* mutant: an extension that throws or rejects is answered by the passthrough
CallOutcome_fallback(name, args) ==
  LET outcome == IF name \in DOMAIN extensions
                 THEN ExtensionResult(extensions[name], args)
                 ELSE Returned(Fulfilled(Last(args)))
  IN IF outcome.kind = "throw" \/ "rejected" \in DOMAIN outcome.value
     THEN Returned(Fulfilled(Last(args)))
     ELSE outcome

\* the outcome of Lager.call(name, ...args): what the extension yields, as it
\* yields it, or a resolved promise of the last argument
CallOutcome(name, args) ==
  IF name \in DOMAIN extensions
  THEN ExtensionResult(extensions[name], args)
  ELSE Returned(Fulfilled(Last(args)))

\* Lager.call
Lager_call(name, args) ==
  /\ build = PeboLager
  /\ applied' = Applications(name, args)
  /\ LET outcome == CallOutcome(name, args)
     IN ret' = [op |-> "call", arg |-> [name |-> name, args |-> args],
                kind |-> outcome.kind, value |-> outcome.value]
  /\ UNCHANGED <<build, plugins, config, extensions, events, call, registered>>
  /\ UNCHANGED <<cli, call2>>

\* the promise Pebo.fire returns for an event
Fired(eventName) == [fired |-> eventName]

\* Lager.fire: the wrapper of the constructor logs and hands over to Pebo.fire
Lager_fire(eventName) ==
  /\ build = PeboLager
  /\ ret' = Return("fire", ByName(eventName), Fired(eventName))
  /\ UNCHANGED <<build, plugins, config, extensions, events, call, registered>>
  /\ applied' = <<>>
  /\ UNCHANGED <<cli, call2>>

\* the modules require can load, by the path require.resolve accepts
Installed ==
  [x \in {"lager-a", "cwd/plugins/b", "cwd/node_modules/linked-a"} |->
     CASE x = "lager-a" -> Descriptor("A", Undefined, Undefined, [timeout |-> Number(30)])
       [] x = "cwd/plugins/b" ->
            Descriptor("B", Undefined, [double |-> "doubleAsync"], Undefined)
       [] x = "cwd/node_modules/linked-a" ->
            Descriptor("a", Undefined, Undefined, [retries |-> Number(1)])]

\* path.join(process.cwd(), ...)
cwd == "cwd"

\* requireArg after the three attempts of init: the identifier, the identifier
\* under the working directory, the identifier under its node_modules, or false
RequireArg(pluginIdentifier) ==
  IF pluginIdentifier \in DOMAIN Installed THEN pluginIdentifier
  ELSE IF cwd \o "/" \o pluginIdentifier \in DOMAIN Installed
       THEN cwd \o "/" \o pluginIdentifier
  ELSE IF cwd \o "/node_modules/" \o pluginIdentifier \in DOMAIN Installed
       THEN cwd \o "/node_modules/" \o pluginIdentifier
  ELSE "false"

\* one step of init, in the order the steps are taken
Step(step, of) == [step |-> step, of |-> of]

\* mutant: the first identifier that is not found ends the loop
RECURSIVE LoadPlugins_abort(_, _)
LoadPlugins_abort(acc, identifiers) ==
  IF Len(identifiers) = 0 THEN acc
  ELSE LET requireArg == RequireArg(Head(identifiers))
       IN IF requireArg # "false"
          THEN LoadPlugins_abort(
                 [acc EXCEPT !.st = Registration(@, Installed[requireArg]),
                             !.required = Append(@, Installed[requireArg]),
                             !.steps = Append(@, Step("register", Head(identifiers)))],
                 Tail(identifiers))
          ELSE [acc EXCEPT !.steps = Append(@, Step("warn", Head(identifiers)))]

\* the _.forEach of init over the identifiers: the fields of the engine, the
\* modules registered and the steps taken, a registration or a warning for
\* each identifier
RECURSIVE LoadPlugins(_, _)
LoadPlugins(acc, identifiers) ==
  IF Len(identifiers) = 0 THEN acc
  ELSE LET requireArg == RequireArg(Head(identifiers))
       IN LoadPlugins(
            IF requireArg # "false"
            THEN [acc EXCEPT !.st = Registration(@, Installed[requireArg]),
                             !.required = Append(@, Installed[requireArg]),
                             !.steps = Append(@, Step("register", Head(identifiers)))]
            ELSE [acc EXCEPT !.steps = Append(@, Step("warn", Head(identifiers)))],
            Tail(identifiers))

\* config.plugins = config.plugins || []
PluginsOf(cfg) == IF "plugins" \in DOMAIN cfg THEN cfg.plugins ELSE <<>>

\* Lager.init: this.config is assigned, the plugins are loaded, afterInit is
\* fired and the promise of that fire call is returned
Lager_init(cfg) ==
  /\ build = PeboLager
  /\ Len(plugins) + Len(PluginsOf(cfg)) <= MaxPlugins
  /\ LET loaded == LoadPlugins([st |-> [Fields EXCEPT !.config = cfg.config],
                                required |-> <<>>,
                                steps |-> <<Step("config", "")>>],
                               PluginsOf(cfg))
     IN /\ config' = loaded.st.config
        /\ plugins' = loaded.st.plugins
        /\ events' = loaded.st.events
        /\ extensions' = loaded.st.extensions
        /\ registered' = registered \o loaded.required
        /\ ret' = [op |-> "init", arg |-> cfg, kind |-> "return",
                   value |-> Fired("afterInit"),
                   steps |-> Append(loaded.steps, Step("fire", "afterInit"))]
  /\ UNCHANGED <<build, call>>
  /\ applied' = <<>>
  /\ UNCHANGED <<cli, call2>>

(***************************************************************************)
(* unnamed/part_000: the command line object icli                          *)
(***************************************************************************)
\* the decimal digits of a natural number, as JavaScript writes it
RECURSIVE Digits(_)
Digits(n) ==
  LET d == n % 10
      c == CASE d = 0 -> "0" [] d = 1 -> "1" [] d = 2 -> "2" [] d = 3 -> "3"
             [] d = 4 -> "4" [] d = 5 -> "5" [] d = 6 -> "6" [] d = 7 -> "7"
             [] d = 8 -> "8" [] d = 9 -> "9"
  IN IF n < 10 THEN c ELSE Digits(n \div 10) \o c

\* the string '' + v
toString(v) ==
  CASE "string" \in DOMAIN v -> v.string
    [] "number" \in DOMAIN v -> Digits(v.number)
    [] v = Undefined -> "undefined"
    [] v = Null -> "null"

\* arguments[0] of a call: undefined when the call has no argument
FirstArgument(args) == IF Len(args) = 0 THEN Undefined ELSE args[1]

\* the function catchPrintStart assigns to icli.print
Capture(execOriginal) == [fn |-> "capture", execOriginal |-> execOriginal]

\* if (execOriginal): true of the values of this model is the boolean true
Truthy(v) == v = Boolean(TRUE)

\* the calls made on icli so far are kept up to this number
MaxCalls == 4

\* the call is added to the calls made so far
Called(op, arg) ==
  /\ Len(calls) < MaxCalls
  /\ calls' = Append(calls, [op |-> op, arg |-> arg])

\* mutant: the text caught so far is kept
catchPrintStart_keep(execOriginal) ==
  /\ Called("catchPrintStart", execOriginal)
  /\ catched' = catched
  /\ icli_print' = Capture(execOriginal)
  /\ ret' = Return("catchPrintStart", execOriginal, Undefined)
  /\ UNCHANGED console
  /\ UNCHANGED engine

\* icli.catchPrintStart
catchPrintStart(execOriginal) ==
  /\ Called("catchPrintStart", execOriginal)
  /\ catched' = ""
  /\ icli_print' = Capture(execOriginal)
  /\ ret' = Return("catchPrintStart", execOriginal, Undefined)
  /\ UNCHANGED console
  /\ UNCHANGED engine

\* a call icli.print(...args): the default print hands the arguments to
\* console.log; the capturing print does so when execOriginal holds, and
\* appends its first argument to the text caught
callPrint(args) ==
  /\ Called("print", args)
  /\ IF icli_print = DefaultPrint
     THEN /\ console' = Append(console, args)
          /\ catched' = catched
     ELSE /\ console' = IF Truthy(icli_print.execOriginal)
                        THEN Append(console, args)
                        ELSE console
          /\ catched' = catched \o toString(FirstArgument(args))
  /\ ret' = Return("print", args, Undefined)
  /\ UNCHANGED icli_print
  /\ UNCHANGED engine

\* icli.catchPrintStop
catchPrintStop ==
  /\ Called("catchPrintStop", Undefined)
  /\ icli_print' = DefaultPrint
  /\ ret' = Return("catchPrintStop", Undefined, String(catched))
  /\ UNCHANGED <<catched, console>>
  /\ UNCHANGED engine

Next ==
  \/ \E plugin \in CoreDescriptors : registerPlugin(plugin)
  \/ \E name \in Names : getPlugin(name)
  \/ \E eventName \in Events, args \in Tuples : fire(eventName, args)
  \/ settle
  \/ \E plugin \in PeboDescriptors : Lager_registerPlugin(plugin)
  \/ \E name \in LookupNames : Lager_isPluginRegistered(name)
  \/ \E name \in LookupNames : Lager_getPlugin(name)

Spec == Init /\ [][Next]_vars


(***************************************************************************)
(* The engine of src/lib/lager.js with handlers that may never settle; the *)
(* event loop runs the callback chained on every promise that has settled  *)
(***************************************************************************)
HangingDescriptors ==
  {Descriptor(n, h, Undefined, Undefined) :
     n \in Names,
     h \in {Undefined, [e |-> "append"], [e |-> "reject"], [e |-> "hang"]}}

FairInit == Init /\ build = LagerJs

FairNext ==
  \/ \E plugin \in HangingDescriptors : registerPlugin(plugin)
  \/ \E args \in Tuples : fire("e", args)
  \/ settle

FairSpec == FairInit /\ [][FairNext]_vars /\ WF_vars(settle)

(***************************************************************************)
(* The engine of src/lib/lager.js with two fire calls in flight on a       *)
(* registry that is filled before the calls are made                       *)
(***************************************************************************)
\* the registry of the specifications below holds at most MaxRegistered plugins
MaxRegistered == 2

ConcurrentDescriptors ==
  {Descriptor(n, h, Undefined, Undefined) :
     n \in Names, h \in {Undefined, [e |-> "append"], [e |-> "reject"]}}

ConcurrentInit == Init /\ build = LagerJs

ConcurrentNext ==
  \/ \E plugin \in ConcurrentDescriptors :
       /\ call = NoCall
       /\ call2 = NoCall
       /\ Len(plugins) < MaxRegistered
       /\ registerPlugin(plugin)
  \/ \E args \in Tuples : fire("e", args)
  \/ \E args \in Tuples : fire_second("e", args)
  \/ settle
  \/ settle_second

ConcurrentSpec == ConcurrentInit /\ [][ConcurrentNext]_vars

(***************************************************************************)
(* The engine of unnamed/part_002 with its configuration and its extensions *)
(***************************************************************************)
\* plugins with default configurations, two of them under names with the same
\* camel-cased form, and plugins with extensions
ProjectDescriptors ==
  {Descriptor(n, Undefined, Undefined, c) :
     n \in {"A", "B"}, c \in {Undefined, [timeout |-> Number(30)]}}
  \cup {Descriptor("a", Undefined, Undefined,
                   [timeout |-> Number(45), retries |-> Number(1)]),
        Descriptor("A", Undefined,
                   [double |-> "double", doubleAsync |-> "doubleAsync",
                    fail |-> "fail", failAsync |-> "failAsync"], Undefined),
        Descriptor("A", Undefined, [double |-> "doubleAsync"], Undefined),
        Descriptor("B", [e |-> "append"], [double |-> "doubleAsync"], Undefined)}

\* the config section of lager.json: the subsection of a plugin is a mapping
ProjectConfigs ==
  {Empty,
   [iam |-> [region |-> String("us-east-1"), role |-> Null, retries |-> Number(3)],
    a |-> [timeout |-> Number(60), region |-> String("eu")]]}

\* the plugins lists of lager.json: modules found at each of the three places,
\* a module found nowhere, two modules with the same configuration key
PluginLists ==
  {<<>>, <<"lager-a">>, <<"ghost", "plugins/b">>, <<"linked-a", "lager-a">>,
   <<"lager-a", "linked-a">>}

\* the contents of lager.json handed to init, with or without a plugins list
InitConfigs ==
  {[config |-> c, plugins |-> l] : c \in ProjectConfigs, l \in PluginLists}
  \cup {[config |-> c] : c \in ProjectConfigs}

\* the segments of the keys asked of getConfig
ConfigPaths ==
  {<<"a">>, <<"b">>, <<"a", "timeout">>, <<"b", "timeout">>, <<"iam", "region">>, <<"iam", "zone", "name">>, <<"iam", "retries", "max">>,
   <<"iam", "role", "name">>, <<"iam", "region", "length">>}

\* the key that names a path: its segments joined by '.'
RECURSIVE Dotted(_)
Dotted(path) ==
  IF Len(path) = 1 THEN path[1] ELSE path[1] \o "." \o Dotted(Tail(path))

ConfigKeys == {Dotted(path) : path \in ConfigPaths} \cup {NoName}

\* the extension keys and the argument lists handed to call
CallKeys == {"A:double", "A:doubleAsync", "A:fail", "A:failAsync", "B:double"}
CallArgs == {<<>>, <<Number(5)>>, <<Number(5), Number(7)>>}

PeboInit == Init /\ build = PeboLager

PeboNext ==
  \/ \E cfg \in InitConfigs :
       /\ plugins = <<>>
       /\ Len(PluginsOf(cfg)) <= MaxRegistered
       /\ Lager_init(cfg)
  \/ \E plugin \in ProjectDescriptors :
       /\ Len(plugins) < MaxRegistered
       /\ Lager_registerPlugin(plugin)
  \/ \E key \in ConfigKeys : Lager_getConfig(key)
  \/ \E name \in CallKeys, args \in CallArgs : Lager_call(name, args)
  \/ \E eventName \in Events : Lager_fire(eventName)
  \/ \E name \in LookupNames : Lager_isPluginRegistered(name)
  \/ \E name \in LookupNames : Lager_getPlugin(name)

PeboSpec == PeboInit /\ [][PeboNext]_vars


(***************************************************************************)
(* The command line object of unnamed/part_000 and its print capture       *)
(***************************************************************************)
\* the values of execOriginal, and the argument lists handed to print
ExecOriginals == {Boolean(TRUE), Boolean(FALSE), Undefined}
PrintArgs == {<<>>, <<String("a")>>, <<String("b"), String("z")>>, <<Number(12)>>}

CliNext ==
  \/ \E execOriginal \in ExecOriginals : catchPrintStart(execOriginal)
  \/ \E args \in PrintArgs : callPrint(args)
  \/ catchPrintStop

CliInit == Init /\ build = PeboLager

CliSpec == CliInit /\ [][CliNext]_vars

(***************************************************************************)
(* Properties of fire (src/lib/lager.js)                                   *)
(***************************************************************************)
\* plugin p has a handler for event ev
HasHandler(p, ev) == p.hooks # Undefined /\ ev \in DOMAIN p.hooks

\* the left fold of the hook handlers for ev over list, from tuple T: a plugin
\* with a handler replaces the tuple by the handler's resolved tuple, a plugin
\* without one leaves it; the fold ends at the first handler that rejects
RECURSIVE HookFold(_, _, _)
HookFold(list, ev, T) ==
  IF list = <<>>
  THEN [kind |-> "fulfilled", value |-> T, reason |-> ""]
  ELSE LET p == Head(list)
       IN IF HasHandler(p, ev)
          THEN LET r == HookResult(p.hooks[ev], p, T)
               IN IF r.kind = "rejected" THEN r ELSE HookFold(Tail(list), ev, r.value)
          ELSE HookFold(Tail(list), ev, T)

\* what the k-th handler invoked by the followed fire call settles to
Outcome(k) ==
  LET inv == call.invoked[k]
      p == plugins[inv.i + 1]
  IN HookResult(p.hooks[call.eventName], p, inv.args)

Settled(c) == c.state \in {"fulfilled", "rejected"}

\* C1: whenever a fire call settles and no handler of the left fold over the
\* registry rejects, the call is fulfilled with the tuple the left fold of the
\* handlers over the registry, in registration order, gives from the initial tuple.
C1_FireIsLeftFold ==
  [][(call' # call /\ Settled(call')) =>
       LET f == HookFold(plugins', call'.eventName, call'.initialArgs)
       IN f.kind = "fulfilled" =>
            /\ call'.state = "fulfilled"
            /\ call'.value = f.value]_vars

\* a fire call resolved after two handlers ran around a plugin without handler
C1_Witness ==
  /\ call.state = "fulfilled"
  /\ Len(call.invoked) >= 2
  /\ Len(call.initialArgs) = 2
  /\ \E k \in 1..Len(plugins) :
       /\ ~HasHandler(plugins[k], call.eventName)
       /\ call.invoked[1].i < k - 1
       /\ k - 1 < call.invoked[2].i

\* C2: a handler that rejects is the last handler the fire call invokes; once its
\* promise has settled the call is rejected with exactly its error and delivers
\* no tuple; and a call is rejected only by such a handler.
C2_FailFast ==
  /\ \A k \in 1..Len(call.invoked) :
       Outcome(k).kind = "rejected" =>
         /\ k = Len(call.invoked)
         /\ call.invoked[k].i \notin call.running =>
              /\ call.state = "rejected"
              /\ call.reason = Outcome(k).reason
              /\ call.value = <<>>
  /\ call.state = "rejected" =>
       /\ call.invoked # <<>>
       /\ Outcome(Len(call.invoked)).kind = "rejected"

\* the second of three plugins rejected; the third has a handler and was not invoked
C2_Witness ==
  /\ call.state = "rejected"
  /\ Len(plugins) = 3
  /\ HasHandler(plugins[3], call.eventName)
  /\ Len(call.invoked) = 2
  /\ call.invoked[2].i = 1
  /\ call.reason = "Error-" \o plugins[2].name

\* C3: at most one handler of the fire call is outstanding, it is the one invoked
\* last, and each handler but the first was invoked after the one before it had
\* settled, with the tuple that one resolved to.
C3_OneHandlerAtATime ==
  /\ Cardinality(call.running) <= 1
  /\ call.running # {} =>
       /\ call.state = "pending"
       /\ call.running = {call.invoked[Len(call.invoked)].i}
  /\ \A k \in 1..(Len(call.invoked) - 1) :
       /\ call.invoked[k].i \notin call.running
       /\ call.invoked[k].i < call.invoked[k + 1].i
       /\ Outcome(k).kind = "fulfilled"
       /\ call.invoked[k + 1].args = Outcome(k).value

\* a second handler is outstanding after the first settled
C3_Witness ==
  /\ call.state = "pending"
  /\ Len(call.invoked) >= 2
  /\ call.running = {call.invoked[2].i}

\* C4: when no registered plugin implements the event, the fire call is resolved
\* with the initial tuple and has invoked no handler.
C4_Passthrough ==
  (/\ call.state # "none"
   /\ \A k \in 1..Len(plugins) : ~HasHandler(plugins[k], call.eventName))
  => /\ call.state = "fulfilled"
     /\ call.value = call.initialArgs
     /\ call.invoked = <<>>
     /\ call.running = {}

\* three plugins, one with hooks for another event only, none for the fired event
C4_Witness ==
  /\ call.state = "fulfilled"
  /\ call.i = 3
  /\ Len(plugins) = 3
  /\ \A k \in 1..3 : ~HasHandler(plugins[k], call.eventName)
  /\ \E k \in 1..3 : plugins[k].hooks # Undefined
  /\ \E k \in 1..3 : plugins[k].hooks = Undefined

\* plugin named n whose handler for "e" appends "-n" to the first argument
Appender(p, n) == p.name = n /\ p.hooks = [e |-> "append"]

\* C5: with plugin A then plugin B registered, fire("e", "x") resolves to
\* ("x-A-B"); with B then A registered it resolves to ("x-B-A").
C5_OrderSensitive ==
  (/\ call.state = "fulfilled"
   /\ call.eventName = "e"
   /\ call.initialArgs = <<"x">>
   /\ call.i = 2
   /\ Len(plugins) >= 2)
  => /\ (Appender(plugins[1], "A") /\ Appender(plugins[2], "B"))
          => call.value = <<"x-A-B">>
     /\ (Appender(plugins[1], "B") /\ Appender(plugins[2], "A"))
          => call.value = <<"x-B-A">>

\* B then A were registered and the call resolved to ("x-B-A")
C5_Witness ==
  /\ call.state = "fulfilled"
  /\ call.eventName = "e"
  /\ call.initialArgs = <<"x">>
  /\ call.i = 2
  /\ Len(plugins) = 2
  /\ Appender(plugins[1], "B")
  /\ Appender(plugins[2], "A")
  /\ call.value = <<"x-B-A">>


(***************************************************************************)
(* Properties of the registry (both builds)                                *)
(***************************************************************************)
\* registry entry p is the descriptor d that was passed to registerPlugin
\* (registration fills in getPath, lager, config and absent hooks/extensions)
SameDescriptor(p, d) ==
  /\ p.name = d.name
  /\ OrEmpty(p.hooks) = OrEmpty(d.hooks)
  /\ OrEmpty(p.extensions) = OrEmpty(d.extensions)

\* some registered descriptor has this name
Registered(name) == \E k \in 1..Len(plugins) : plugins[k].name = name

\* C6: a registerPlugin call with a descriptor that has no name fails, and leaves
\* the registry, the config store and the extension table as they were.
C6_NamelessRegistrationFails ==
  [][(ret'.op = "registerPlugin" /\ ret'.arg.name = NoName) =>
       /\ ret'.kind = "throw"
       /\ UNCHANGED <<plugins, config, extensions>>]_vars

\* the registry holds, in call order, the descriptors of the successful
\* registerPlugin calls, and a successful call returned the engine
C7_RegistryState ==
  /\ Len(plugins) = Len(registered)
  /\ \A k \in 1..Len(plugins) : SameDescriptor(plugins[k], registered[k])
  /\ (ret.op = "registerPlugin" /\ ret.kind = "return") =>
       /\ ret.value = This
       /\ plugins # <<>>
       /\ SameDescriptor(plugins[Len(plugins)], ret.arg)

\* a step leaves the registry alone or is a successful registerPlugin that
\* appends its descriptor and keeps every earlier entry in place
C7_RegistryStep ==
  \/ plugins' = plugins
  \/ /\ Len(plugins') = Len(plugins) + 1
     /\ SubSeq(plugins', 1, Len(plugins)) = plugins
     /\ ret'.op = "registerPlugin"
     /\ ret'.kind = "return"
     /\ ret'.value = This
     /\ SameDescriptor(plugins'[Len(plugins')], ret'.arg)

\* C7: the registry is the sequence of the descriptors passed to the successful
\* registerPlugin calls, in call order; the registry changes only by a successful
\* registerPlugin appending its descriptor, which returns the engine.
C7_RegistryIsRegistrationLog == []C7_RegistryState /\ [][C7_RegistryStep]_vars

\* three registrations, two of them of descriptors with the same name
C7_Witness ==
  /\ Len(plugins) = 3
  /\ plugins[1].name = plugins[3].name
  /\ plugins[1] # plugins[3]
  /\ plugins[1].name # plugins[2].name
  /\ ret.op = "registerPlugin"
  /\ ret.kind = "return"

\* C8: when some registered descriptor has the name, getPlugin(name) returns the
\* descriptor of lowest registry index that has it.
C8_GetPluginFirstMatch ==
  (ret.op = "getPlugin" /\ Registered(ret.arg.name)) =>
    LET first == CHOOSE k \in 1..Len(plugins) :
                   /\ plugins[k].name = ret.arg.name
                   /\ \A j \in 1..(k - 1) : plugins[j].name # ret.arg.name
    IN /\ ret.kind = "return"
       /\ ret.value = plugins[first]

\* two different descriptors of the looked-up name, the earlier one not at the head
C8_Witness ==
  /\ ret.op = "getPlugin"
  /\ ret.kind = "return"
  /\ Len(plugins) = 3
  /\ plugins[1].name # ret.arg.name
  /\ plugins[2].name = ret.arg.name
  /\ plugins[3].name = ret.arg.name
  /\ plugins[2] # plugins[3]
  /\ ret.value = plugins[2]

\* C9: getPlugin(name) fails when no registered descriptor has the name, and
\* leaves the registry unchanged.
C9_GetPluginMissFails ==
  [][(ret'.op = "getPlugin" /\ ~(\E k \in 1..Len(plugins') : plugins'[k].name = ret'.arg.name)) =>
       /\ ret'.kind = "throw"
       /\ plugins' = plugins]_vars

\* C10: isPluginRegistered(name) returns, without failing, whether some registered
\* descriptor has the name, which is also whether getPlugin(name) succeeds.
C10_IsRegisteredIffGetPlugin ==
  build = PeboLager =>
    /\ \A name \in LookupNames :
         /\ IsRegistered(name) = Registered(name)
         /\ IsRegistered(name) <=> (Lager_getPluginResult(name).kind = "return")
    /\ ret.op = "isPluginRegistered" =>
         /\ ret.kind = "return"
         /\ ret.value = Boolean(Registered(ret.arg.name))

\* the looked-up name is that of the first registry entry; another name is absent
C10_Witness ==
  /\ ret.op = "isPluginRegistered"
  /\ ret.value = Boolean(TRUE)
  /\ plugins # <<>>
  /\ plugins[1].name = ret.arg.name
  /\ \A k \in 2..Len(plugins) : plugins[k].name # ret.arg.name
  /\ \E name \in LookupNames : ~IsRegistered(name)


\* the plugins, counted from 0, whose handler the fire call c has invoked
InvokedPlugins(c) == {c.invoked[k].i : k \in 1..Len(c.invoked)}

\* the plugins among the first n of list, counted from 0, with a handler for ev
Implementing(list, ev, n) == {i \in 0..(n - 1) : HasHandler(list[i + 1], ev)}

\* no plugin's handler is invoked twice by one fire call
C19_AtMostOnce ==
  \A j, k \in 1..Len(call.invoked) : j # k => call.invoked[j].i # call.invoked[k].i

\* the step that settles a fire call: fulfilled, every implementing plugin has
\* been invoked; rejected, the implementing plugins up to the one that rejected
\* have been, and the step itself invokes nothing and touches no plugin
C19_SettlingStep ==
  /\ (call' # call /\ call'.state = "fulfilled") =>
       InvokedPlugins(call') = Implementing(plugins', call'.eventName, Len(plugins'))
  /\ (call' # call /\ call'.state = "rejected") =>
       /\ InvokedPlugins(call') =
            Implementing(plugins', call'.eventName, call'.invoked[Len(call'.invoked)].i + 1)
       /\ call'.invoked = call.invoked
       /\ plugins' = plugins

\* C19: in one fire call each plugin's handler is invoked at most once; when the
\* call is fulfilled every plugin implementing the event has been invoked exactly
\* once, and when the handler of plugin k rejects exactly the implementing
\* plugins up to and including k have been invoked once, nothing being undone.
C19_EachHandlerOnce == []C19_AtMostOnce /\ [][C19_SettlingStep]_vars

\* the third of three plugins rejected after the first was invoked; the second
\* has no handler for the event
C19_Witness ==
  /\ call.state = "rejected"
  /\ Len(plugins) = 3
  /\ ~HasHandler(plugins[2], call.eventName)
  /\ Len(call.invoked) = 2
  /\ call.invoked[1].i = 0
  /\ call.invoked[2].i = 2

\* a handler the fire call has invoked never settles
Hanging ==
  \E i \in call.running : plugins[i + 1].hooks[call.eventName] = "hang"

\* a fire call is never settled while a handler it invoked hangs, and it invokes
\* no further handler
C18_HangStalls ==
  Hanging => (Hanging' /\ call'.state = "pending" /\ call'.invoked = call.invoked)

\* C18: a fire call eventually settles, resolved or rejected, unless a handler
\* it invokes never settles; and from the moment it has invoked such a handler
\* the call never settles and invokes no handler of a later plugin.
C18_FireSettlesUnlessHandlerHangs ==
  /\ (call.state = "pending") ~> (call.state \in {"fulfilled", "rejected"} \/ Hanging)
  /\ [][C18_HangStalls]_vars

\* the second of three plugins hangs after the first has settled; the third has
\* a handler and is not invoked
C18_Witness ==
  /\ Hanging
  /\ Len(plugins) = 3
  /\ call.running = {1}
  /\ Len(call.invoked) = 2
  /\ HasHandler(plugins[3], call.eventName)

\* a registration made while the fire call is pending appends the plugin behind
\* the position of the call and leaves the call as it is; and the call is
\* fulfilled only with its index at the length the registry has by then, every
\* plugin of that registry that implements the event having been invoked
C22_RegistryStep ==
  /\ (call.state = "pending" /\ registered' # registered) =>
       /\ call' = call
       /\ Len(plugins') = Len(plugins) + 1
       /\ SubSeq(plugins', 1, Len(plugins)) = plugins
       /\ call.i < Len(plugins)
       /\ \A k \in 1..Len(call.invoked) : call.invoked[k].i < Len(plugins)
  /\ (call' # call /\ call'.state = "fulfilled") =>
       /\ call'.i = Len(plugins')
       /\ \A i \in 0..(Len(plugins') - 1) :
            HasHandler(plugins'[i + 1], call'.eventName) => i \in InvokedPlugins(call')

\* C22: the registry is read again at every step of a fire call: a plugin
\* registered while the call is in progress is appended after the current
\* position and, if it implements the event, its handler is invoked later in
\* the same call, which ends only when its index reaches the current length
\* of the registry.
C22_RegistryReadAtEveryStep == [][C22_RegistryStep]_vars

\* the plugin of the last registration was registered after the fire call had
\* invoked its first handler, and the call has invoked it before being fulfilled
C22_Witness ==
  /\ call.state = "fulfilled"
  /\ ret.op = "registerPlugin"
  /\ ret.kind = "return"
  /\ Len(plugins) = 2
  /\ plugins[2].name = ret.arg.name
  /\ Len(call.invoked) = 2
  /\ call.invoked[2].i = 1

\* the plugins a fire call has invoked, in registration order
InOrder(c) ==
  \A k \in 1..(Len(c.invoked) - 1) : c.invoked[k].i < c.invoked[k + 1].i

\* call c has settled as the left fold of the handlers over the registry from
\* its own initial tuple does: what it gives when it runs alone
AsAlone(c) ==
  LET f == HookFold(plugins, c.eventName, c.initialArgs)
  IN /\ c.state = f.kind
     /\ c.value = f.value
     /\ c.reason = f.reason

\* a step of one call leaves the other call as it is
C21_OwnState == (call' # call) => (call2' = call2)

\* C21: two fire calls in flight on the same registry keep each its own plugin
\* index and its own tuple: each visits the plugins in registration order and
\* settles as it would when run alone, whatever the interleaving of the
\* completions of their handlers.
C21_ConcurrentFiresIndependent ==
  /\ [](/\ InOrder(call) /\ InOrder(call2)
        /\ Settled(call) => AsAlone(call)
        /\ Settled(call2) => AsAlone(call2))
  /\ [][C21_OwnState]_vars

\* both calls are in flight with different tuples, each past its first
\* handler, on a registry of two plugins that implement the event
C21_Witness ==
  /\ call.state = "pending"
  /\ call2.state = "pending"
  /\ call.initialArgs # call2.initialArgs
  /\ Len(call.invoked) = 2
  /\ Len(call2.invoked) = 2
  /\ call.invoked[2].args # call2.invoked[2].args

(***************************************************************************)
(* Properties of call (unnamed/part_002)                                   *)
(***************************************************************************)
\* plugin p offers an extension under the key
Offers(p, key) ==
  \E x \in DOMAIN OrEmpty(p.extensions) : key = p.name \o ":" \o x

\* some plugin handed to the engine so far offers an extension under the key
Offered(key) == \E k \in 1..Len(registered) : Offers(registered[k], key)

\* the extension function under the key: that of the last plugin offering it
OfferedFn(key) ==
  LET k == CHOOSE i \in 1..Len(registered) :
             /\ Offers(registered[i], key)
             /\ \A j \in (i + 1)..Len(registered) : ~Offers(registered[j], key)
      p == registered[k]
  IN p.extensions[CHOOSE x \in DOMAIN p.extensions : key = p.name \o ":" \o x]

\* C11: for a key under which no plugin has registered an extension and a
\* non-empty argument list, call returns a resolved promise of the last
\* argument, unchanged, and invokes no extension.
C11_CallPassthrough ==
  (ret.op = "call" /\ ~Offered(ret.arg.name) /\ Len(ret.arg.args) > 0) =>
    /\ ret.kind = "return"
    /\ ret.value = Fulfilled(ret.arg.args[Len(ret.arg.args)])
    /\ applied = <<>>

\* a call with two different arguments under a key nobody offers, on an engine
\* that has extensions under other keys
C11_Witness ==
  /\ ret.op = "call"
  /\ ~Offered(ret.arg.name)
  /\ Len(ret.arg.args) = 2
  /\ ret.arg.args[1] # ret.arg.args[2]
  /\ extensions # Empty
  /\ ret.value = Fulfilled(ret.arg.args[2])

\* a value as a promise: a promise is itself, a plain value is wrapped into a
\* resolved promise
AsPromise(v) ==
  IF "fulfilled" \in DOMAIN v \/ "rejected" \in DOMAIN v THEN v ELSE Fulfilled(v)

\* C12: call under the key of a registered extension invokes that extension with
\* exactly the arguments of the call and returns a promise of its result, a
\* plain result being wrapped into a resolved promise.
C12_CallReturnsPromise ==
  (ret.op = "call" /\ Offered(ret.arg.name)) =>
    /\ applied = <<[fn |-> OfferedFn(ret.arg.name), this |-> Null, args |-> ret.arg.args]>>
    /\ ret.kind = "return" =>
         ret.value = AsPromise(ExtensionResult(OfferedFn(ret.arg.name), ret.arg.args).value)

\* the extension under the key throws, or returns a rejected promise
Fails(key, args) ==
  LET outcome == ExtensionResult(OfferedFn(key), args)
  IN outcome.kind = "throw" \/ "rejected" \in DOMAIN outcome.value

\* C17: when the extension invoked through call throws or rejects, the caller
\* gets that same error, thrown or as the rejected promise; it is neither
\* swallowed nor replaced by the passthrough of the last argument.
C17_CallErrorSurfaces ==
  (ret.op = "call" /\ Offered(ret.arg.name) /\ Fails(ret.arg.name, ret.arg.args)) =>
    LET outcome == ExtensionResult(OfferedFn(ret.arg.name), ret.arg.args)
    IN /\ ret.kind = outcome.kind
       /\ ret.value = outcome.value
       /\ ret.value # Fulfilled(Last(ret.arg.args))
       /\ Len(applied) = 1

\* an extension that throws and one that rejects have both been called with
\* arguments: this one threw
C17_Witness ==
  /\ ret.op = "call"
  /\ Offered(ret.arg.name)
  /\ Len(ret.arg.args) > 0
  /\ ret.kind = "throw"
  /\ ret.value = [error |-> "Error: extension failed"]

\* every key resolves to the extension of the last plugin that offers it, and
\* every registered name to the first plugin that has it
C23_LastExtensionFirstPlugin ==
  /\ \A key \in CallKeys, args \in CallArgs :
       Offered(key) =>
         Applications(key, args) =
           <<[fn |-> OfferedFn(key), this |-> Null, args |-> args]>>
  /\ \A name \in LookupNames :
       Registered(name) =>
         LET first == CHOOSE k \in 1..Len(plugins) :
                        /\ plugins[k].name = name
                        /\ \A j \in 1..(k - 1) : plugins[j].name # name
         IN Lager_getPluginResult(name) = Return("getPlugin", ByName(name), plugins[first])

\* a registration leaves the extensions under the keys it does not offer as
\* they are
C23_OtherKeysKept ==
  ret'.op = "registerPlugin" =>
    \A key \in DOMAIN extensions \cup DOMAIN extensions' :
       ~Offers(ret'.arg, key) =>
         /\ key \in DOMAIN extensions
         /\ key \in DOMAIN extensions'
         /\ extensions'[key] = extensions[key]

\* C23: an extension key resolves to the extension most recently registered
\* under it: with two plugins of one name that both define extension E, call
\* invokes the later plugin's E while getPlugin returns the earlier plugin; and
\* a registration leaves the extensions under other keys unaffected.
C23_LatestExtensionWins == []C23_LastExtensionFirstPlugin /\ [][C23_OtherKeysKept]_vars

\* two different plugins named A both offer double; call("A:double") has applied
\* the doubleAsync of the second, and B's extension is registered under its key
C23_Witness ==
  /\ Len(registered) = 2
  /\ registered[1].name = "A"
  /\ registered[2].name = "A"
  /\ Offers(registered[1], "A:fail")
  /\ Offers(registered[1], "A:double")
  /\ Offers(registered[2], "A:double")
  /\ ~Offers(registered[2], "A:fail")
  /\ ret.op = "call"
  /\ ret.arg.name = "A:double"
  /\ Len(applied) = 1
  /\ applied[1].fn = "doubleAsync"
  /\ Lager_getPluginResult("A").value = plugins[1]

\* a descriptor with a name and nothing else
Bare(p) ==
  /\ p.name # NoName
  /\ p.hooks = Undefined
  /\ p.extensions = Undefined
  /\ p.config = Undefined

\* the plugins of list that are not bare; registration fills in lager, getPath
\* and the empty tables, which is not looked at
RECURSIVE WithoutBare(_)
WithoutBare(list) ==
  IF list = <<>> THEN <<>>
  ELSE LET p == Head(list)
       IN IF p.name # NoName /\ OrEmpty(p.hooks) = Empty
             /\ OrEmpty(p.extensions) = Empty /\ p.config = Undefined
          THEN WithoutBare(Tail(list))
          ELSE <<p>> \o WithoutBare(Tail(list))

\* registering a bare descriptor succeeds and adds it to the registry, and no
\* listener and no extension with it; a fire call is fulfilled with the tuple
\* it would have without the bare plugins
C24_BareStep ==
  /\ (registered' # registered /\ ret'.op = "registerPlugin" /\ Bare(ret'.arg)) =>
       /\ ret'.kind = "return"
       /\ ret'.value = This
       /\ Len(plugins') = Len(plugins) + 1
       /\ plugins'[Len(plugins')].name = ret'.arg.name
       /\ SubSeq(plugins', 1, Len(plugins)) = plugins
       /\ extensions' = extensions
       /\ events' = events
  /\ (call' # call /\ call'.state = "fulfilled") =>
       call'.value =
         HookFold(WithoutBare(plugins'), call'.eventName, call'.initialArgs).value

\* with a bare plugin registered, call under a key of its name that no plugin
\* offers passes the last argument through, and getConfig of its camel-cased
\* key returns
C24_BareState ==
  \A k \in 1..Len(registered) :
     Bare(registered[k]) =>
       /\ \A x \in {"double", "fail"}, args \in CallArgs \ {<<>>} :
            ~Offered(registered[k].name \o ":" \o x) =>
              /\ CallOutcome(registered[k].name \o ":" \o x, args) =
                   Returned(Fulfilled(args[Len(args)]))
              /\ Applications(registered[k].name \o ":" \o x, args) = <<>>
       /\ GetConfigIn(config, camelCase(registered[k].name)).kind = "return"

PathOf(key) == CHOOSE path \in ConfigPaths : Dotted(path) = key

\* every segment of the path exists: each one is an own property of the
\* mapping the segments before it lead to
RECURSIVE Exists(_, _)
Exists(v, path) ==
  /\ IsMapping(v)
  /\ Head(path) \in DOMAIN v
  /\ Len(path) > 1 => Exists(v[Head(path)], Tail(path))

\* the value the path leads to in v, for a path whose every segment exists
RECURSIVE ValueAt(_, _)
ValueAt(v, path) ==
  IF Len(path) = 0 THEN v ELSE ValueAt(v[Head(path)], Tail(path))

\* C13: getConfig never throws: it returns, and it returns undefined when a
\* segment of the key is missing or an intermediate value is no mapping, null
\* and scalars included.
C13_GetConfigNeverThrows ==
  ret.op = "getConfig" =>
    /\ ret.kind = "return"
    /\ (ret.arg.name # NoName /\ ~Exists(config, PathOf(ret.arg.name))) =>
         ret.value = Undefined

\* C14: getConfig without a key returns the whole configuration mapping, and
\* getConfig with a dotted path whose every segment exists returns the value
\* found by walking the nested mappings segment by segment.
C14_GetConfigWalksPath ==
  ret.op = "getConfig" =>
    /\ ret.arg.name = NoName => (ret.kind = "return" /\ ret.value = config)
    /\ (ret.arg.name # NoName /\ Exists(config, PathOf(ret.arg.name))) =>
         /\ ret.kind = "return"
         /\ ret.value = ValueAt(config, PathOf(ret.arg.name))

\* a key of two segments has led to a nested string of the project's
\* configuration
C14_Witness ==
  /\ ret.op = "getConfig"
  /\ ret.arg.name # NoName
  /\ Len(PathOf(ret.arg.name)) = 2
  /\ Exists(config, PathOf(ret.arg.name))
  /\ ret.value = String("us-east-1")

\* C15: after registerPlugin(p), getConfig(camelCase(p.name)) is the defaults of
\* p shallowly overlaid with the subsection stored under that key before the
\* call: a key of both takes the subsection's value, a key of one of them is
\* kept, and without a subsection the defaults are returned as they are.
C15_RegistrationOverlaysDefaults ==
  [][ret'.op = "registerPlugin" =>
       LET p == ret'.arg
           key == camelCase(p.name)
           sub == Prop(config, key)
           defaults == OrEmpty(p.config)
           got == GetConfigIn(config', key).value
       IN IF sub = Undefined THEN got = p.config
          ELSE /\ DOMAIN got = DOMAIN defaults \cup DOMAIN sub
               /\ \A k \in DOMAIN sub : got[k] = sub[k]
               /\ \A k \in DOMAIN defaults \ DOMAIN sub : got[k] = defaults[k]]_vars

\* the plugin "a" has been registered on the project's subsection a: timeout is
\* the project's, retries the plugin's own, region the project's own
C15_Witness ==
  /\ ret.op = "registerPlugin"
  /\ ret.arg.config = [timeout |-> Number(45), retries |-> Number(1)]
  /\ Len(plugins) = 1
  /\ Prop(config, "a") =
       [timeout |-> Number(60), retries |-> Number(1), region |-> String("eu")]

\* C16: fire, call, getConfig, getPlugin and isPluginRegistered leave the
\* configuration and the registry unchanged, and registerPlugin(p) changes no
\* entry of the configuration other than the one under camelCase(p.name).
C16_ConfigWrittenByRegistrationOnly ==
  [][/\ ret'.op \in {"fire", "call", "getConfig", "getPlugin", "isPluginRegistered"} =>
          (config' = config /\ plugins' = plugins)
     /\ ret'.op = "registerPlugin" =>
          \A k \in (DOMAIN config \cup DOMAIN config') \ {camelCase(ret'.arg.name)} :
             /\ k \in DOMAIN config
             /\ k \in DOMAIN config'
             /\ config'[k] = config[k]]_vars

\* plugin B has been registered on a configuration that holds the project's
\* sections and the entry of another plugin
C16_Witness ==
  /\ ret.op = "registerPlugin"
  /\ ret.arg.name = "B"
  /\ {"iam", "a", "b"} \subseteq DOMAIN config
  /\ Len(plugins) = 2
  /\ plugins[1].config = Prop(config, "a")

\* C20: for every plugin of the registry, getConfig(camelCase(p.name)) is that
\* plugin's own merged configuration, also when several registered plugins have
\* the same name or the same camel-cased name.
C20_EveryPluginKeepsItsConfig ==
  \A k \in 1..Len(plugins) :
     GetConfigIn(config, camelCase(plugins[k].name)).value = plugins[k].config

(***************************************************************************)
(* Properties of init (unnamed/part_002)                                   *)
(***************************************************************************)
\* the places where the module of an identifier is looked for
Candidates(id) == {id, "cwd/" \o id, "cwd/node_modules/" \o id}

\* some place holds a module for the identifier
Resolvable(id) == Candidates(id) \cap DOMAIN Installed # {}

\* the identifiers of ids that resolve, in the order of ids
RECURSIVE ResolvableOf(_)
ResolvableOf(ids) ==
  IF ids = <<>> THEN <<>>
  ELSE IF Resolvable(Head(ids))
       THEN <<Head(ids)>> \o ResolvableOf(Tail(ids))
       ELSE ResolvableOf(Tail(ids))

\* the module of an identifier that resolves
ModuleOf(id) == Installed[CHOOSE path \in Candidates(id) : path \in DOMAIN Installed]

\* C25: init installs the project's config before it registers any plugin,
\* registers the resolvable plugins in the order of their identifiers, warns
\* about and skips every identifier found at none of the three places, and
\* fires afterInit once, after the last registration, returning the promise of
\* that fire call.
C25_InitOrder ==
  [][ret'.op = "init" =>
       LET cfg == ret'.arg
           ids == PluginsOf(cfg)
           found == ResolvableOf(ids)
           steps == ret'.steps
       IN /\ ret'.kind = "return"
          /\ ret'.value = Fired("afterInit")
          \* one step per identifier between the config and the fire
          /\ Len(steps) = Len(ids) + 2
          /\ steps[1] = Step("config", "")
          /\ steps[Len(steps)] = Step("fire", "afterInit")
          /\ \A k \in 1..Len(ids) :
               steps[k + 1] =
                 Step(IF Resolvable(ids[k]) THEN "register" ELSE "warn", ids[k])
          \* the registry grows by the modules found, in order
          /\ Len(plugins') = Len(plugins) + Len(found)
          /\ SubSeq(plugins', 1, Len(plugins)) = plugins
          /\ \A k \in 1..Len(found) :
               plugins'[Len(plugins) + k].name = ModuleOf(found[k]).name
          /\ registered' = registered \o [k \in 1..Len(found) |-> ModuleOf(found[k])]
          \* the project's config was in place when the plugins were registered:
          \* its sections are there and its values win over the plugins' defaults
          /\ DOMAIN config' =
               DOMAIN cfg.config \cup
                 {camelCase(ModuleOf(found[k]).name) : k \in 1..Len(found)}
          /\ \A key \in DOMAIN cfg.config :
               IF \E k \in 1..Len(found) : camelCase(ModuleOf(found[k]).name) = key
               THEN \A x \in DOMAIN cfg.config[key] :
                      config'[key][x] = cfg.config[key][x]
               ELSE config'[key] = cfg.config[key]]_vars

\* init has skipped an identifier found nowhere and registered the module
\* listed after it, on a project config that has a section of its own
C25_Witness ==
  /\ ret.op = "init"
  /\ PluginsOf(ret.arg) = <<"ghost", "plugins/b">>
  /\ ret.steps[2] = Step("warn", "ghost")
  /\ Len(plugins) = 1
  /\ plugins[1].name = "B"
  /\ "iam" \in DOMAIN config

(***************************************************************************)
(* Properties of the print capture (unnamed/part_000)                      *)
(***************************************************************************)
\* the most recent catchPrintStart among the first n calls, 0 when there is none
LastStart(n) ==
  IF \E k \in 1..n : calls[k].op = "catchPrintStart"
  THEN CHOOSE k \in 1..n :
         /\ calls[k].op = "catchPrintStart"
         /\ \A j \in (k + 1)..n : calls[j].op # "catchPrintStart"
  ELSE 0

\* call k is made while a capture is on: a catchPrintStart came before it and
\* no catchPrintStop since
Capturing(k) ==
  /\ LastStart(k - 1) # 0
  /\ \A j \in (LastStart(k - 1) + 1)..(k - 1) : calls[j].op # "catchPrintStop"

\* the text of the first argument of the print calls among calls k..n that
\* are made while the capture started by call s is on
RECURSIVE TextFrom(_, _, _)
TextFrom(s, k, n) ==
  IF k > n THEN ""
  ELSE (IF calls[k].op = "print" /\ Capturing(k) /\ LastStart(k - 1) = s
        THEN (IF Len(calls[k].arg) = 0 THEN "undefined" ELSE toString(calls[k].arg[1]))
        ELSE "")
       \o TextFrom(s, k + 1, n)

\* the text caught since the most recent catchPrintStart
Captured ==
  IF LastStart(Len(calls)) = 0 THEN ""
  ELSE TextFrom(LastStart(Len(calls)), 1, Len(calls))

\* the print calls among calls k..n that the default print has executed: those
\* made while no capture is on, and those of a capture whose execOriginal is true
RECURSIVE Originals(_, _)
Originals(k, n) ==
  IF k > n THEN <<>>
  ELSE (IF /\ calls[k].op = "print"
           /\ (~Capturing(k) \/ calls[LastStart(k - 1)].arg = Boolean(TRUE))
        THEN <<calls[k].arg>>
        ELSE <<>>)
       \o Originals(k + 1, n)

\* C26: catchPrintStop returns the concatenation, in call order, of the first
\* argument of every print call made since the most recent catchPrintStart
\* while the capture was on, and restores the default print; a print made after
\* catchPrintStop adds nothing to the text; and during a capture the default
\* print is executed only when execOriginal is true.
C26_CaptureIsConcatenation ==
  /\ catched = Captured
  /\ ret.op = "catchPrintStop" =>
       /\ ret.value = String(Captured)
       /\ icli_print = DefaultPrint
  /\ (icli_print # DefaultPrint) <=> Capturing(Len(calls) + 1)
  /\ console = Originals(1, Len(calls))

\* two prints with different arguments, the second a number, were caught with
\* execOriginal true and the capture was stopped
C26_Witness ==
  /\ ret.op = "catchPrintStop"
  /\ Len(calls) = 4
  /\ calls[1].op = "catchPrintStart"
  /\ calls[1].arg = Boolean(TRUE)
  /\ ret.value = String("b12")
  /\ Len(console) = 2

=============================================================================
